---------------------------- MODULE Spec2Model ----------------------------
(***************************************************************************)
(* The resilient session client of talespin: class GameServer              *)
(* (src/src/lib/gameServer.ts, the same class as src/unnamed/part_007)     *)
(* and the part of the game view (src/unnamed/part_003) that drives it.    *)
(*                                                                         *)
(* JavaScript runs every handler to completion on one event loop, so each  *)
(* public method and each socket event handler is one atomic action. A     *)
(* handler is written as a function from the state record before it to     *)
(* the state record after it, built from the statements of the code.       *)
(* The variables sent, calls, frames, delivered, cbLog, registered, added  *)
(* toasts, invoked and opened are observation logs, closeCalled and        *)
(* mounted observation flags: the program does not read them.              *)
(***************************************************************************)
EXTENDS Integers, Sequences, FiniteSets, TLC

VARIABLES
    ws,                 \* this._ws: index of the current transport handle
    readyState,         \* readyState[h] of every WebSocket constructed so far
    installed,          \* handles whose onopen/onmessage/onclose are set
    message_queue,      \* this.message_queue: serialized text, oldest first
    onmessage_handler,  \* this.onmessage_handler: observers, oldest first
    onclosehandler,     \* this.onclosehandler: the one reconnect callback
    rejoin,             \* the game view's rejoin flag
    navigated,          \* the game view has called goto('/')
    mounted,            \* the game view's onDestroy has not run
    closeCalled,        \* GameServer.close() has been called
    view,               \* the game view's game, UI and results variables
    toasts,             \* log: every toastStore.trigger, in order
    held,               \* an intent object the caller keeps and may mutate
    invoked,            \* log: every typed helper invocation, in order
    nameStore,          \* the value of the name store
    joined_room,        \* this.joined_room of the internal-requeue variant
    sent,               \* log: every WebSocket.send, in order
    calls,              \* log: every GameServer.send call, in order
    frames,             \* log: every message event, in order
    delivered,          \* log: every observer invocation, in order
    cbLog,              \* log: every onclosehandler invocation, in order
    registered,         \* log: every callback passed to onclose(func)
    added,              \* log: every observer passed to addMsgHandler(func)
    opened              \* handles that have reached OPEN

vars == <<ws, readyState, installed, message_queue, onmessage_handler,
          onclosehandler, rejoin, navigated, mounted, closeCalled, view,
          toasts, held, invoked, nameStore, joined_room, sent, calls,
          frames, delivered, cbLog, registered, added, opened>>

---------------------------------------------------------------------------
(* Bounds of the model: how far each specification lets the environment   *)
(* go. The code has no such limits.                                        *)
MaxHandles == 3
MaxCalls == 3
MaxViewFrames == 1
MaxDispatchHandles == 2
MaxObservers == 2
MaxFrames == 2
MaxCallbackHandles == 3
MaxRegistrations == 2
MaxViewHandles == 4
MaxRejoinFrames == 3
MaxHeldCalls == 3
MaxMutateHandles == 2
MaxHelperCalls == 2
MaxRequeueCalls == 2
MaxRequeueFrames == 1
MaxRequeueHandles == 3
MaxGameFrames == 3
MaxOrderCalls == 3
MaxOrderFrames == 1
MaxOrderHandles == 2
MaxMountHandles == 3
MaxMountFrames == 1
MaxRaiseObservers == 3
MaxRaiseFrames == 2
MaxResultsFrames == 2

---------------------------------------------------------------------------
(* WebSocket.readyState values. *)
CONNECTING == 0
OPEN == 1
CLOSING == 2
CLOSED == 3

(* The view's side inputs: display name and room code. *)
Name == "Ann"
RoomCode == "AB12"

(* Variant: joinRoom writes its arguments to the other keys.               *)
JoinRoomIntent_swapped(room_id, name) ==
    [tag |-> "JoinRoom", name |-> room_id, room_id |-> name]

(* Outbound intents, as the typed helpers build them: tag is the one      *)
(* top-level key of the object literal, the other fields its record.      *)
JoinRoomIntent(room_id, name) ==
    [tag |-> "JoinRoom", name |-> name, room_id |-> room_id]
ReadyIntent == [tag |-> "Ready"]
VoteIntent(card) == [tag |-> "Vote", card |-> card]
CreateRoomIntent(name) == [tag |-> "CreateRoom", name |-> name]
ActivePlayerChooseIntent(card, description) ==
    [tag |-> "ActivePlayerChooseCard", card |-> card,
     description |-> description]
PlayerChooseIntent(card) == [tag |-> "PlayerChooseCard", card |-> card]

(* The two helpers only the internal-requeue variant has.                  *)
PingIntent == [tag |-> "Ping"]
StartRoundIntent == [tag |-> "StartRound"]

Intents == {ReadyIntent, VoteIntent("c1")}

(* JSON.stringify: the text of a tagged object, as a sequence of tokens    *)
(* (keys in the order the helper wrote them).                              *)
Stringify(data) ==
    CASE data.tag = "JoinRoom" ->
             <<"JoinRoom", "name", data.name, "room_id", data.room_id>>
      [] data.tag = "CreateRoom" -> <<"CreateRoom", "name", data.name>>
      [] data.tag = "ActivePlayerChooseCard" ->
             <<data.tag, "card", data.card, "description", data.description>>
      [] data.tag \in {"Vote", "PlayerChooseCard"} ->
             <<data.tag, "card", data.card>>
      [] OTHER -> <<data.tag>>

(* Inbound text frames the server (or the network) can deliver; the last   *)
(* one is not parseable.                                                   *)
RoomStateFrame == <<"RoomState", "stage", "Joining">>
InvalidRoomIdFrame == <<"InvalidRoomId">>
ErrorMsgFrame == <<"ErrorMsg", "oops">>
MalformedFrame == <<"{">>

InboundFrames == {RoomStateFrame, ErrorMsgFrame, MalformedFrame}
RejoinFrames == {RoomStateFrame, InvalidRoomIdFrame}

(* The frames of a game in progress.                                       *)
RoomStateInGame ==
    <<"RoomState", "players", "Ann,Bob", "stage", "ActiveChooses",
      "active_player", "Ann", "round", "1">>
StartRoundFrame == <<"StartRound", "hand", "c1,c2">>
PlayersChooseFrame == <<"PlayersChoose", "hand", "c1,c2", "description", "d1">>
BeginVotingFrame ==
    <<"BeginVoting", "center_cards", "c1,c2", "description", "d1">>
ResultsFrame ==
    <<"Results", "player_to_current_card", "Ann:c1", "active_card", "c1",
      "point_change", "Ann:3", "player_to_vote", "Bob", "c1">>
EmptyErrorMsgFrame == <<"ErrorMsg", "">>
BareResultsFrame == <<"Results">>
GameFrames ==
    {RoomStateInGame, StartRoundFrame, PlayersChooseFrame, BeginVotingFrame,
     ResultsFrame, ErrorMsgFrame, EmptyErrorMsgFrame, InvalidRoomIdFrame}

(* The frame the internal-requeue variant looks for.                       *)
RoomStatusFrame == <<"RoomStatus", "room_id", "AB12">>
RequeueFrames == {RoomStatusFrame, RoomStateFrame}

InboundTags == {"RoomState", "StartRound", "PlayersChoose", "BeginVoting",
                "Results", "ErrorMsg", "InvalidRoomId", "RoomStatus"}

(* JSON.parse: the decoded object of a frame, or a SyntaxError.            *)
Parseable(text) == Len(text) > 0 /\ text[1] \in InboundTags
Parse(text) == [tag |-> text[1], body |-> Tail(text)]

(* data.X.key of a decoded frame: the token after the key, if any.        *)
Field(body, key) ==
    IF \E i \in 1..(Len(body) - 1) : body[i] = key
    THEN body[(CHOOSE i \in 1..(Len(body) - 1) : body[i] = key) + 1]
    ELSE "undefined"

(* Values of the name store.                                               *)
Names == {"Ann", "Bob"}

Cards == {"c1", "c2"}

(* player_to_vote of a Results frame: the votes as Object.entries lists   *)
(* them, one pair per player; in the text the pairs close the frame.       *)
VoteMaps ==
    {<<>>} \cup {<<<<p, x>>>> : p \in Names, x \in Cards}
           \cup {v \in {<<<<p, x>>, <<q, y>>>> :
                            p \in Names, q \in Names,
                            x \in Cards, y \in Cards} :
                     v[1][1] # v[2][1]}

ResultsWith(votes) ==
    <<"Results", "player_to_current_card", "Ann:c1", "active_card", "c1",
      "player_to_vote">>
        \o [i \in 1..(2 * Len(votes)) |->
               votes[(i + 1) \div 2][IF i % 2 = 1 THEN 1 ELSE 2]]

VoteFrames == {ResultsWith(votes) : votes \in VoteMaps}

(* Object.entries(data.X.key): the pairs that follow the key.              *)
Entries(body, key) ==
    IF \E i \in 1..Len(body) : body[i] = key
    THEN LET j == CHOOSE i \in 1..Len(body) : body[i] = key
             rest == SubSeq(body, j + 1, Len(body))
         IN  [i \in 1..(Len(rest) \div 2) |-> <<rest[2 * i - 1], rest[2 * i]>>]
    ELSE <<>>

(* Results.svelte: cardToVoters = {} as declared, and the reactive block   *)
(* that pushes each voter on the list of the card voted for.               *)
NoVoters == [x \in Cards |-> <<>>]

RECURSIVE TallyVotes(_, _, _)
TallyVotes(cardToVoters, entries, i) ==
    IF i > Len(entries) THEN cardToVoters
    ELSE TallyVotes([cardToVoters EXCEPT ![entries[i][2]] =
                         Append(@, entries[i][1])],
                    entries, i + 1)

(* Observers and reconnect callbacks a caller can register. viewHandler    *)
(* and rejoinCb are the game view's; the others stand for any other        *)
(* caller-supplied function that returns normally.                         *)
Observers == {"viewHandler", "otherHandler"}

(* An observer that throws on every frame.                                 *)
RaisingObservers == Observers \cup {"raisingHandler"}
Callbacks == {"rejoinCb", "otherCb"}
NoopCb == "noop"

---------------------------------------------------------------------------
(* The state as one record, and its assignment to the next state.          *)
Cur ==
    [ws |-> ws, readyState |-> readyState, installed |-> installed,
     message_queue |-> message_queue,
     onmessage_handler |-> onmessage_handler,
     onclosehandler |-> onclosehandler, rejoin |-> rejoin,
     navigated |-> navigated, mounted |-> mounted,
     closeCalled |-> closeCalled, view |-> view, toasts |-> toasts,
     held |-> held, invoked |-> invoked, nameStore |-> nameStore,
     joined_room |-> joined_room, sent |-> sent,
     calls |-> calls, frames |-> frames, delivered |-> delivered,
     cbLog |-> cbLog, registered |-> registered, added |-> added,
     opened |-> opened]

Apply(n) ==
    /\ ws' = n.ws
    /\ readyState' = n.readyState
    /\ installed' = n.installed
    /\ message_queue' = n.message_queue
    /\ onmessage_handler' = n.onmessage_handler
    /\ onclosehandler' = n.onclosehandler
    /\ rejoin' = n.rejoin
    /\ navigated' = n.navigated
    /\ mounted' = n.mounted
    /\ closeCalled' = n.closeCalled
    /\ view' = n.view
    /\ toasts' = n.toasts
    /\ held' = n.held
    /\ invoked' = n.invoked
    /\ nameStore' = n.nameStore
    /\ joined_room' = n.joined_room
    /\ sent' = n.sent
    /\ calls' = n.calls
    /\ frames' = n.frames
    /\ delivered' = n.delivered
    /\ cbLog' = n.cbLog
    /\ registered' = n.registered
    /\ added' = n.added
    /\ opened' = n.opened

(* WebSocket.send(str) on handle h. The entry keeps the readyState of h    *)
(* at the call (only a call on an OPEN handle puts the text on the         *)
(* network), the handle that is current at the call and whether the view  *)
(* is still mounted.                                                       *)
WsSend(c, h, str, via) ==
    [c EXCEPT !.sent = Append(@, [h |-> h, msg |-> str, via |-> via,
                                  st |-> c.readyState[h], cur |-> c.ws,
                                  newest |-> Len(c.readyState),
                                  epoch |-> Cardinality(c.opened),
                                  mounted |-> c.mounted])]

(* The log entry of one GameServer.send call.                              *)
LogCall(c, data, ctx) ==
    [c EXCEPT !.calls = Append(@,
        [msg |-> Stringify(data), ws |-> c.ws, st |-> c.readyState[c.ws],
         ctx |-> ctx, epoch |-> Cardinality(c.opened),
         afterClose |-> c.closeCalled])]

---------------------------------------------------------------------------
(* Variant: a message for a handle that is CLOSING or CLOSED is dropped.   *)
send_dropsUnlessConnecting(c, data) ==
    LET data_str == Stringify(data)
    IN  IF c.readyState[c.ws] = OPEN
        THEN WsSend(c, c.ws, data_str, "send")
        ELSE IF c.readyState[c.ws] = CONNECTING
             THEN [c EXCEPT !.message_queue = Append(@, data_str)]
             ELSE c

(* Variant: transmits unless the handle is still CONNECTING.               *)
send_unlessConnecting(c, data) ==
    LET data_str == Stringify(data)
    IN  IF c.readyState[c.ws] # CONNECTING
        THEN WsSend(c, c.ws, data_str, "send")
        ELSE [c EXCEPT !.message_queue = Append(@, data_str)]

(* Variant: the queue keeps the object passed to send, not its text.      *)
send_keepsObject(c, data) ==
    IF c.readyState[c.ws] = OPEN
    THEN WsSend(c, c.ws, Stringify(data), "send")
    ELSE [c EXCEPT !.message_queue = Append(@, <<"object">>)]

(* Variant: no readyState test before WebSocket.send.                      *)
send_unguarded(c, data) == WsSend(c, c.ws, Stringify(data), "send")

(* Variant: a message that cannot be sent goes to the head of the queue.   *)
send_unshift(c, data) ==
    LET data_str == Stringify(data)
    IN  IF c.readyState[c.ws] = OPEN
        THEN WsSend(c, c.ws, data_str, "send")
        ELSE [c EXCEPT !.message_queue = <<data_str>> \o @]

(* Variant: the socket of the constructor is kept for sending.            *)
send_onFirstSocket(c, data) ==
    LET data_str == Stringify(data)
    IN  IF c.readyState[c.ws] = OPEN
        THEN WsSend(c, 1, data_str, "send")
        ELSE [c EXCEPT !.message_queue = Append(@, data_str)]

(* GameServer.send(data).                                                  *)
send(c, data) ==
    LET data_str == Stringify(data)
    IN  IF c.readyState[c.ws] = OPEN
        THEN WsSend(c, c.ws, data_str, "send")
        ELSE [c EXCEPT !.message_queue = Append(@, data_str)]

(* A send call, observed.                                                  *)
SendCall(c, data, ctx) == send(LogCall(c, data, ctx), data)

(* Variant: an observer already in the list is not added again.            *)
addMsgHandler_dedup(c, func) ==
    IF \E i \in 1..Len(c.onmessage_handler) : c.onmessage_handler[i] = func
    THEN c
    ELSE [c EXCEPT !.onmessage_handler = Append(@, func)]

(* GameServer.addMsgHandler(func).                                         *)
addMsgHandler(c, func) ==
    [c EXCEPT !.onmessage_handler = Append(@, func)]

(* Variant: the first callback registered is kept.                         *)
onclose_keepFirst(c, func) ==
    IF c.onclosehandler = NoopCb THEN [c EXCEPT !.onclosehandler = func]
    ELSE c

(* GameServer.onclose(func).                                               *)
onclose(c, func) == [c EXCEPT !.onclosehandler = func]

(* GameServer.close(): this._ws.close(). A handle that is CONNECTING or    *)
(* OPEN becomes CLOSING and its close event comes later; on a CLOSING or   *)
(* CLOSED handle nothing happens.                                          *)
close(c) ==
    IF c.readyState[c.ws] \in {CONNECTING, OPEN}
    THEN [c EXCEPT !.readyState[c.ws] = CLOSING]
    ELSE c

(* this._ws.onopen: forEach over the queue sends on this._ws, then the     *)
(* queue is replaced by [].                                                *)
RECURSIVE FlushFrom(_, _, _)
FlushFrom(c, q, i) ==
    IF i > Len(q) THEN c
    ELSE FlushFrom(WsSend(c, c.ws, q[i], "onopen"), q, i + 1)

(* Variants: the queue is sent newest first; the queue is not cleared;     *)
(* only the head of the queue is sent and removed.                         *)
Reverse(q) == [i \in 1..Len(q) |-> q[Len(q) + 1 - i]]

ws_onopen_reversed(c) ==
    IF Len(c.message_queue) > 0
    THEN [FlushFrom(c, Reverse(c.message_queue), 1)
             EXCEPT !.message_queue = <<>>]
    ELSE c

ws_onopen_keepsQueue(c) ==
    IF Len(c.message_queue) > 0
    THEN FlushFrom(c, c.message_queue, 1)
    ELSE c

ws_onopen_headOnly(c) ==
    IF Len(c.message_queue) > 0
    THEN [WsSend(c, c.ws, c.message_queue[1], "onopen")
             EXCEPT !.message_queue = Tail(@)]
    ELSE c

ws_onopen(c) ==
    IF Len(c.message_queue) > 0
    THEN [FlushFrom(c, c.message_queue, 1) EXCEPT !.message_queue = <<>>]
    ELSE c

(* if (data.X): the value under the key is tested. An object is truthy,   *)
(* the text of an ErrorMsg is truthy unless it is the empty string.        *)
ErrorText(body) == IF Len(body) > 0 THEN body[1] ELSE ""
Has(data, key) ==
    /\ data.tag = key
    /\ key = "ErrorMsg" => ErrorText(data.body) # ""

(* toastStore.trigger({message, ...}), the message as icon and text.       *)
Trigger(c, icon, text) == [c EXCEPT !.toasts = Append(@, <<icon, text>>)]

(* Variants: InvalidRoomId leaves the flag as it is; RoomState shows its   *)
(* toast every time.                                                       *)
OnInvalidRoomId_keepsRejoin(c) ==
    [Trigger(c, "broken heart", "Invalid Room Code!")
        EXCEPT !.navigated = TRUE]

OnRoomState_alwaysToast(c, body) ==
    LET active == Field(body, "active_player")
        v == [c EXCEPT !.view.players = Field(body, "players"),
                       !.view.stage = Field(body, "stage"),
                       !.view.activePlayer =
                           IF active = "undefined" THEN "" ELSE active,
                       !.view.roundNum = Field(body, "round")]
    IN  [Trigger(v, "wave", "Connected to room!") EXCEPT !.rejoin = TRUE]

(* The branches of the game view's observer.                               *)
OnRoomState(c, body) ==
    LET active == Field(body, "active_player")
        v == [c EXCEPT !.view.players = Field(body, "players"),
                       !.view.stage = Field(body, "stage"),
                       !.view.activePlayer =
                           IF active = "undefined" THEN "" ELSE active,
                       !.view.roundNum = Field(body, "round")]
    IN  IF ~c.rejoin
        THEN [Trigger(v, "wave", "Connected to room!") EXCEPT !.rejoin = TRUE]
        ELSE v

OnStartRound(c, body) ==
    [c EXCEPT !.view.stage = "ActiveChooses",
              !.view.displayImages = Field(body, "hand")]

OnPlayersChoose(c, body) ==
    [c EXCEPT !.view.stage = "PlayersChoose",
              !.view.displayImages = Field(body, "hand"),
              !.view.description = Field(body, "description")]

OnBeginVoting(c, body) ==
    [c EXCEPT !.view.stage = "Voting",
              !.view.displayImages = Field(body, "center_cards"),
              !.view.description = Field(body, "description"),
              !.view.selectedImage = ""]

(* The Results component: made when the stage becomes Results, with its   *)
(* reactive block run on the properties of that moment; while it is        *)
(* shown, the block runs again on each new playerToVote. The RoomState     *)
(* frames used here never carry the stage Results, so the component is    *)
(* made by a Results frame.                                                *)
ResultsComponent(c, was) ==
    IF c.view.stage # "Results" THEN c
    ELSE IF ~was.shown
         THEN [c EXCEPT !.view.cardToVoters =
                  TallyVotes(NoVoters, c.view.playerToVote, 1)]
         ELSE IF was.updated
              THEN [c EXCEPT !.view.cardToVoters =
                       TallyVotes(@, c.view.playerToVote, 1)]
              ELSE c

(* Object.values(undefined) throws a TypeError after the stage is set.    *)
OnResults(c, body) ==
    LET shown == c.view.stage = "Results"
    IN  IF Field(body, "player_to_current_card") = "undefined"
        THEN ResultsComponent([c EXCEPT !.view.stage = "Results"],
                              [shown |-> shown, updated |-> FALSE])
        ELSE ResultsComponent(
                 [c EXCEPT !.view.stage = "Results",
                           !.view.displayImages =
                               <<"values",
                                 Field(body, "player_to_current_card")>>,
                           !.view.playerToVote =
                               Entries(body, "player_to_vote"),
                           !.view.results = body],
                 [shown |-> shown, updated |-> TRUE])

OnErrorMsg(c, body) == Trigger(c, "sob", ErrorText(body))

OnInvalidRoomId(c) ==
    [Trigger([c EXCEPT !.rejoin = FALSE], "broken heart", "Invalid Room Code!")
        EXCEPT !.navigated = TRUE]

(* The game view's observer.                                               *)
ViewHandler(c, data) ==
    IF Has(data, "RoomState") THEN OnRoomState(c, data.body)
    ELSE IF Has(data, "StartRound") THEN OnStartRound(c, data.body)
    ELSE IF Has(data, "PlayersChoose") THEN OnPlayersChoose(c, data.body)
    ELSE IF Has(data, "BeginVoting") THEN OnBeginVoting(c, data.body)
    ELSE IF Has(data, "Results") THEN OnResults(c, data.body)
    ELSE IF Has(data, "ErrorMsg") THEN OnErrorMsg(c, data.body)
    ELSE IF Has(data, "InvalidRoomId") THEN OnInvalidRoomId(c)
    ELSE c

(* One observer called with the decoded data of frame k.                   *)
CallObserver(c, i, data, k) ==
    LET seen == [c EXCEPT !.delivered = Append(@,
                     [frame |-> k, idx |-> i,
                      handler |-> c.onmessage_handler[i], data |-> data])]
    IN  IF c.onmessage_handler[i] = "viewHandler"
        THEN ViewHandler(seen, data)
        ELSE seen

(* The observer throws when it is called with this data.                  *)
Raises(handler, data) ==
    \/ handler = "raisingHandler"
    \/ /\ handler = "viewHandler"
       /\ data.tag = "Results"
       /\ Field(data.body, "player_to_current_card") = "undefined"

(* Variant: an exception of an observer is caught and the forEach goes on. *)
RECURSIVE DispatchFrom_pastRaise(_, _, _, _)
DispatchFrom_pastRaise(c, i, data, k) ==
    IF i > Len(c.onmessage_handler) THEN c
    ELSE DispatchFrom_pastRaise(CallObserver(c, i, data, k), i + 1, data, k)

(* forEach over the observers: an exception of an observer ends it.        *)
RECURSIVE DispatchFrom(_, _, _, _)
DispatchFrom(c, i, data, k) ==
    IF i > Len(c.onmessage_handler) THEN c
    ELSE IF Raises(c.onmessage_handler[i], data)
         THEN CallObserver(c, i, data, k)
         ELSE DispatchFrom(CallObserver(c, i, data, k), i + 1, data, k)

(* Variants: the forEach starts at the second observer; the observer list *)
(* is cleared after the forEach, as the queue is in onopen.                *)
ws_onmessage_skipFirst(c, text, k) ==
    IF Parseable(text)
    THEN DispatchFrom(c, 2, Parse(text), k)
    ELSE c

ws_onmessage_clearsObservers(c, text, k) ==
    IF Parseable(text)
    THEN [DispatchFrom(c, 1, Parse(text), k)
             EXCEPT !.onmessage_handler = <<>>]
    ELSE c

(* Variant: a frame that does not parse closes the socket.                 *)
ws_onmessage_fatal(c, text, k) ==
    IF Parseable(text)
    THEN DispatchFrom(c, 1, Parse(text), k)
    ELSE close(c)

(* this._ws.onmessage: JSON.parse (a SyntaxError ends the handler), then   *)
(* forEach over the observers with the same data. k numbers the frame.     *)
ws_onmessage(c, text, k) ==
    IF Parseable(text)
    THEN DispatchFrom(c, 1, Parse(text), k)
    ELSE c

(* this._ws = new WebSocket(...)                                           *)
NewSocket(c) ==
    [c EXCEPT !.readyState = Append(@, CONNECTING),
              !.ws = Len(c.readyState) + 1]

(* setupSocket(): the three handlers are set on this._ws.                  *)
SetupSocket(c) == [c EXCEPT !.installed = @ \cup {c.ws}]

(* Variant: no second JoinRoom while one is waiting in the queue.          *)
RejoinCallback_coalesced(c) ==
    IF c.rejoin /\ \A i \in 1..Len(c.message_queue) :
                       c.message_queue[i][1] # "JoinRoom"
    THEN SendCall(c, JoinRoomIntent(RoomCode, c.nameStore), "callback")
    ELSE c

(* Variant: the callback joins whatever the flag says.                     *)
RejoinCallback_always(c) ==
    SendCall(c, JoinRoomIntent(RoomCode, c.nameStore), "callback")

(* The callback the game view registers: joinRoom when rejoin is set.      *)
RejoinCallback(c) ==
    IF c.rejoin
    THEN SendCall(c, JoinRoomIntent(RoomCode, c.nameStore), "callback")
    ELSE c

(* this.onclosehandler()                                                   *)
RunCallback(c) ==
    LET seen == [c EXCEPT !.cbLog = Append(@,
                     [cb |-> c.onclosehandler, ws |-> c.ws,
                      st |-> c.readyState[c.ws],
                      installed |-> c.ws \in c.installed,
                      nreg |-> Len(c.registered),
                      qlen |-> Len(c.message_queue),
                      mounted |-> c.mounted])]
    IN  IF c.onclosehandler = "rejoinCb" THEN RejoinCallback(seen) ELSE seen

(* Variants: no new socket after a failed connection attempt; the         *)
(* callback runs before and after the replacement; the callback runs      *)
(* before the replacement only; the queue is emptied with the old socket; *)
(* nothing is done once close() has been called; the client puts a        *)
(* JoinRoom of its own at the head of the queue.                           *)
ws_onclose_requeue(c) ==
    RunCallback(SetupSocket(NewSocket(
        [c EXCEPT !.message_queue =
            <<Stringify(JoinRoomIntent(RoomCode, Name))>> \o @])))

ws_onclose_unlessDeliberate(c) ==
    IF c.closeCalled THEN c ELSE RunCallback(SetupSocket(NewSocket(c)))

ws_onclose_clearsQueue(c) ==
    RunCallback(SetupSocket(NewSocket([c EXCEPT !.message_queue = <<>>])))

ws_onclose_ifOpened(c) ==
    IF c.ws \in c.opened THEN RunCallback(SetupSocket(NewSocket(c))) ELSE c

ws_onclose_callbackTwice(c) ==
    RunCallback(SetupSocket(NewSocket(RunCallback(c))))

ws_onclose_callbackFirst(c) == SetupSocket(NewSocket(RunCallback(c)))

(* this._ws.onclose: new WebSocket, setupSocket, onclosehandler.           *)
ws_onclose(c) == RunCallback(SetupSocket(NewSocket(c)))

(* The internal-requeue variant (src/gameServer.ts). Its constructor,      *)
(* onopen, send, addMsgHandler and close are those above; this.name        *)
(* follows the name store through the subscription of the constructor;    *)
(* its field opened is written and never read. onmessage records the      *)
(* room id of a RoomStatus frame before the dispatch.                      *)
requeue_onmessage(c, text, k) ==
    IF Parseable(text)
    THEN LET data == Parse(text)
             rec == IF data.tag = "RoomStatus"
                    THEN [c EXCEPT !.joined_room = Field(data.body, "room_id")]
                    ELSE c
         IN  DispatchFrom(rec, 1, data, k)
    ELSE c

(* Variant: the JoinRoom goes to the tail of the queue.                    *)
requeue_onclose_push(c) ==
    LET n == NewSocket(c)
    IN  SetupSocket(
            IF c.joined_room # ""
            THEN [n EXCEPT !.message_queue =
                     Append(@, Stringify(
                         JoinRoomIntent(c.joined_room, c.nameStore)))]
            ELSE n)

(* Its onclose: new WebSocket, unshift of a JoinRoom when a room id is     *)
(* recorded, setupSocket. There is no reconnect callback.                  *)
requeue_onclose(c) ==
    LET n == NewSocket(c)
    IN  SetupSocket(
            IF c.joined_room # ""
            THEN [n EXCEPT !.message_queue =
                     <<Stringify(JoinRoomIntent(c.joined_room, c.nameStore))>>
                         \o @]
            ELSE n)

(* The transitions the browser makes before it fires the event.            *)
MarkOpen(c, h) ==
    [c EXCEPT !.readyState[h] = OPEN, !.opened = @ \cup {h}]
MarkClosed(c, h) == [c EXCEPT !.readyState[h] = CLOSED]
LogAdded(c, func) ==
    [c EXCEPT !.added = Append(@, [func |-> func, ws |-> c.ws])]
LogRegistered(c, func) == [c EXCEPT !.registered = Append(@, func)]
LogClose(c) == [c EXCEPT !.closeCalled = TRUE]
LogFrame(c, h, text) ==
    [c EXCEPT !.frames = Append(@, [h |-> h, text |-> text,
                                    nadded |-> Len(c.added),
                                    mounted |-> c.mounted])]

---------------------------------------------------------------------------
(* The game view's variables as declared: no players, stage Joining.       *)
InitialView ==
    [players |-> "none", stage |-> "Joining", activePlayer |-> "",
     roundNum |-> "0", displayImages |-> "none", description |-> "",
     selectedImage |-> "", results |-> "none", playerToVote |-> <<>>,
     cardToVoters |-> NoVoters]

(* constructor: new WebSocket, setupSocket.                                *)
Constructed ==
    [ws |-> 1, readyState |-> <<CONNECTING>>, installed |-> {1},
     message_queue |-> <<>>, onmessage_handler |-> <<>>,
     onclosehandler |-> NoopCb, rejoin |-> FALSE, navigated |-> FALSE,
     mounted |-> TRUE, closeCalled |-> FALSE, view |-> InitialView,
     toasts |-> <<>>, held |-> VoteIntent("c1"), invoked |-> <<>>,
     nameStore |-> Name, joined_room |-> "", sent |-> <<>>,
     calls |-> <<>>, frames |-> <<>>, delivered |-> <<>>, cbLog |-> <<>>,
     registered |-> <<>>, added |-> <<>>, opened |-> {}]

(* The game view's onMount: new GameServer(), joinRoom(roomCode, name),    *)
(* onclose(callback), addMsgHandler(handler), all in one task.             *)
Mounted ==
    LET c1 == SendCall(Constructed, JoinRoomIntent(RoomCode, Name), "caller")
        c2 == onclose(LogRegistered(c1, "rejoinCb"), "rejoinCb")
    IN  addMsgHandler(LogAdded(c2, "viewHandler"), "viewHandler")

(* The page before the game view mounts: no GameServer yet, the name as   *)
(* the name store holds it.                                                *)
BeforeMount(name) ==
    [Constructed EXCEPT !.ws = 0, !.readyState = <<>>, !.installed = {},
                        !.mounted = FALSE, !.nameStore = name]

(* The game view's onMount: goto('/') when the name is empty, and then,    *)
(* with no return in between, new GameServer(), joinRoom(roomCode, name),  *)
(* onclose(callback), addMsgHandler(handler).                              *)
onMount(c) ==
    LET name == c.nameStore
        c0 == IF name = "" THEN [c EXCEPT !.navigated = TRUE] ELSE c
        gs == [c0 EXCEPT !.ws = 1, !.readyState = <<CONNECTING>>,
                         !.installed = {1}, !.mounted = TRUE]
        c1 == SendCall(gs, JoinRoomIntent(RoomCode, name), "caller")
        c2 == onclose(LogRegistered(c1, "rejoinCb"), "rejoinCb")
    IN  addMsgHandler(LogAdded(c2, "viewHandler"), "viewHandler")

IsState(c) ==
    /\ ws = c.ws
    /\ readyState = c.readyState
    /\ installed = c.installed
    /\ message_queue = c.message_queue
    /\ onmessage_handler = c.onmessage_handler
    /\ onclosehandler = c.onclosehandler
    /\ rejoin = c.rejoin
    /\ navigated = c.navigated
    /\ mounted = c.mounted
    /\ closeCalled = c.closeCalled
    /\ view = c.view
    /\ toasts = c.toasts
    /\ held = c.held
    /\ invoked = c.invoked
    /\ nameStore = c.nameStore
    /\ joined_room = c.joined_room
    /\ sent = c.sent
    /\ calls = c.calls
    /\ frames = c.frames
    /\ delivered = c.delivered
    /\ cbLog = c.cbLog
    /\ registered = c.registered
    /\ added = c.added
    /\ opened = c.opened

InitClient == IsState(Constructed)
InitView == IsState(Mounted)

(* A typed helper called by the caller: send(data).                        *)
Send(data) == Apply(SendCall(Cur, data, "caller"))

AddMsgHandler(func) == Apply(addMsgHandler(LogAdded(Cur, func), func))

OnClose(func) == Apply(onclose(LogRegistered(Cur, func), func))

Close == Apply(close(LogClose(Cur)))

(* The game view's onDestroy: rejoin = false, gameServer.close().          *)
onDestroy(c) == close(LogClose([c EXCEPT !.rejoin = FALSE]))

Unmount ==
    /\ mounted
    /\ Apply(onDestroy([Cur EXCEPT !.mounted = FALSE]))

(* The open event of handle h.                                             *)
SocketOpen(h) ==
    /\ readyState[h] = CONNECTING
    /\ LET c == MarkOpen(Cur, h)
       IN  Apply(IF h \in installed THEN ws_onopen(c) ELSE c)

(* A message event on handle h.                                            *)
SocketMessage(h, text) ==
    /\ readyState[h] = OPEN
    /\ LET c == LogFrame(Cur, h, text)
       IN  Apply(IF h \in installed
                 THEN ws_onmessage(c, text, Len(c.frames))
                 ELSE c)

(* The close event of handle h: clean close, failed connect, error, or     *)
(* the end of close().                                                     *)
SocketClose(h) ==
    /\ readyState[h] # CLOSED
    /\ LET c == MarkClosed(Cur, h)
       IN  Apply(IF h \in installed THEN ws_onclose(c) ELSE c)

Handles == 1..Len(readyState)

(* The session driven by the game view: outbound traffic, reconnects and   *)
(* the frames that switch the rejoin flag.                                 *)
Next ==
    \/ /\ Len(calls) < MaxCalls
       /\ \E data \in Intents : Send(data)
    \/ Close
    \/ \E h \in Handles : SocketOpen(h)
    \/ /\ Len(frames) < MaxViewFrames
       /\ \E h \in Handles, text \in RejoinFrames : SocketMessage(h, text)
    \/ /\ Len(readyState) < MaxHandles
       /\ \E h \in Handles : SocketClose(h)

Spec == InitView /\ [][Next]_vars

(* The session driven by any caller: observers and inbound frames.         *)
NextDispatch ==
    \/ /\ Len(added) < MaxObservers
       /\ \E func \in Observers : AddMsgHandler(func)
    \/ \E h \in Handles : SocketOpen(h)
    \/ /\ Len(frames) < MaxFrames
       /\ \E h \in Handles, text \in InboundFrames : SocketMessage(h, text)
    \/ /\ Len(readyState) < MaxDispatchHandles
       /\ \E h \in Handles : SocketClose(h)

SpecDispatch == InitClient /\ [][NextDispatch]_vars

(* The session driven by any caller: reconnect callbacks.                  *)
NextCallback ==
    \/ /\ Len(registered) < MaxRegistrations
       /\ \E func \in Callbacks : OnClose(func)
    \/ Close
    \/ \E h \in Handles : SocketOpen(h)
    \/ /\ Len(readyState) < MaxCallbackHandles
       /\ \E h \in Handles : SocketClose(h)

SpecCallback == InitClient /\ [][NextCallback]_vars

(* The typed helpers: each builds its object literal and calls send.      *)
createRoom(c, name) == SendCall(c, CreateRoomIntent(name), "caller")
joinRoom(c, room_id, name) ==
    SendCall(c, JoinRoomIntent(room_id, name), "caller")
ready(c) == SendCall(c, ReadyIntent, "caller")
activePlayerChoose(c, card, description) ==
    SendCall(c, ActivePlayerChooseIntent(card, description), "caller")
playersChoose(c, card) == SendCall(c, PlayerChooseIntent(card), "caller")
vote(c, card) == SendCall(c, VoteIntent(card), "caller")
ping(c) == SendCall(c, PingIntent, "caller")
startRound(c) == SendCall(c, StartRoundIntent, "caller")

LogInvoked(c, helper, args) ==
    [c EXCEPT !.invoked = Append(@, [helper |-> helper, args |-> args])]

Descriptions == {"d1"}

CreateRoom == Apply(createRoom(LogInvoked(Cur, "createRoom", <<Name>>), Name))
JoinRoom ==
    Apply(joinRoom(LogInvoked(Cur, "joinRoom", <<RoomCode, Name>>),
                   RoomCode, Name))
Ready == Apply(ready(LogInvoked(Cur, "ready", <<>>)))
ActivePlayerChoose(card, description) ==
    Apply(activePlayerChoose(
              LogInvoked(Cur, "activePlayerChoose", <<card, description>>),
              card, description))
PlayersChoose(card) ==
    Apply(playersChoose(LogInvoked(Cur, "playersChoose", <<card>>), card))
Vote(card) == Apply(vote(LogInvoked(Cur, "vote", <<card>>), card))
Ping == Apply(ping(LogInvoked(Cur, "ping", <<>>)))
StartRound == Apply(startRound(LogInvoked(Cur, "startRound", <<>>)))

(* The typed helpers of both client files, called in any order.            *)
NextHelpers ==
    \/ /\ Len(invoked) < MaxHelperCalls
       /\ \/ CreateRoom
          \/ JoinRoom
          \/ Ready
          \/ \E card \in Cards, description \in Descriptions :
                 ActivePlayerChoose(card, description)
          \/ \E card \in Cards : PlayersChoose(card)
          \/ \E card \in Cards : Vote(card)
          \/ Ping
          \/ StartRound
    \/ \E h \in Handles : SocketOpen(h)

SpecHelpers == InitClient /\ [][NextHelpers]_vars

(* The caller passes the object it keeps to send; the caller assigns to   *)
(* a field of that object after send has returned.                         *)
SendHeld == Apply(SendCall(Cur, held, "caller"))

Mutate(card) ==
    /\ held.card # card
    /\ Apply([Cur EXCEPT !.held = [@ EXCEPT !.card = card]])

(* The session driven by a caller that mutates its intent object.          *)
NextMutate ==
    \/ /\ Len(calls) < MaxHeldCalls
       /\ SendHeld
    \/ \E card \in Cards : Mutate(card)
    \/ \E h \in Handles : SocketOpen(h)
    \/ /\ Len(readyState) < MaxMutateHandles
       /\ \E h \in Handles : SocketClose(h)

SpecMutate == InitClient /\ [][NextMutate]_vars

(* The events of the internal-requeue variant, and a change of the name   *)
(* store.                                                                  *)
RequeueMessage(h, text) ==
    /\ readyState[h] = OPEN
    /\ LET c == LogFrame(Cur, h, text)
       IN  Apply(IF h \in installed
                 THEN requeue_onmessage(c, text, Len(c.frames))
                 ELSE c)

RequeueClose(h) ==
    /\ readyState[h] # CLOSED
    /\ LET c == MarkClosed(Cur, h)
       IN  Apply(IF h \in installed THEN requeue_onclose(c) ELSE c)

SetName(value) ==
    /\ nameStore # value
    /\ Apply([Cur EXCEPT !.nameStore = value])

(* The session of the internal-requeue variant.                            *)
NextRequeue ==
    \/ /\ Len(calls) < MaxRequeueCalls
       /\ \E data \in Intents : Send(data)
    \/ \E value \in Names : SetName(value)
    \/ \E h \in Handles : SocketOpen(h)
    \/ /\ Len(frames) < MaxRequeueFrames
       /\ \E h \in Handles, text \in RequeueFrames : RequeueMessage(h, text)
    \/ /\ Len(readyState) < MaxRequeueHandles
       /\ \E h \in Handles : RequeueClose(h)

SpecRequeue == InitClient /\ [][NextRequeue]_vars

(* The start of the closing handshake by the server or the network stack: *)
(* readyState reads CLOSING from here until the close event, and the      *)
(* caller's tasks run in between.                                          *)
SocketClosing(h) ==
    /\ readyState[h] = OPEN
    /\ Apply([Cur EXCEPT !.readyState[h] = CLOSING])

(* The game view playing while its connection is lost and replaced.        *)
NextOrder ==
    \/ /\ Len(calls) < MaxOrderCalls
       /\ \E data \in Intents : Send(data)
    \/ \E h \in Handles : SocketOpen(h)
    \/ /\ Len(frames) < MaxOrderFrames
       /\ \E h \in Handles : SocketMessage(h, RoomStateFrame)
    \/ \E h \in Handles : SocketClosing(h)
    \/ /\ Len(readyState) < MaxOrderHandles
       /\ \E h \in Handles : SocketClose(h)

SpecOrder == InitView /\ [][NextOrder]_vars

(* The game page from before its mount: the name may be empty.            *)
InitPage == \E name \in Names \cup {""} : IsState(BeforeMount(name))

OnMount ==
    /\ readyState = <<>>
    /\ Apply(onMount(Cur))

NextMount ==
    \/ OnMount
    \/ Unmount
    \/ \E h \in Handles : SocketOpen(h)
    \/ /\ Len(frames) < MaxMountFrames
       /\ \E h \in Handles, text \in RejoinFrames : SocketMessage(h, text)
    \/ /\ Len(readyState) < MaxMountHandles
       /\ \E h \in Handles : SocketClose(h)

SpecMount == InitPage /\ [][NextMount]_vars

(* The session with observers that may throw, on its first handle.       *)
RaiseFrames == {RoomStateFrame, BareResultsFrame}

NextRaise ==
    \/ /\ Len(added) < MaxRaiseObservers
       /\ \E func \in RaisingObservers : AddMsgHandler(func)
    \/ \E h \in Handles : SocketOpen(h)
    \/ /\ Len(frames) < MaxRaiseFrames
       /\ \E h \in Handles, text \in RaiseFrames : SocketMessage(h, text)

SpecRaise == InitClient /\ [][NextRaise]_vars

(* The game view through rounds of results.                                *)
NextResults ==
    \/ \E h \in Handles : SocketOpen(h)
    \/ /\ Len(frames) < MaxResultsFrames
       /\ \E h \in Handles, text \in VoteFrames \cup {StartRoundFrame} :
              SocketMessage(h, text)

SpecResults == InitView /\ [][NextResults]_vars

(* The game view receiving the frames of a game on its first handle.       *)
NextFrames ==
    \/ \E h \in Handles : SocketOpen(h)
    \/ /\ Len(frames) < MaxGameFrames
       /\ \E h \in Handles, text \in GameFrames : SocketMessage(h, text)

SpecFrames == InitView /\ [][NextFrames]_vars

(* The life of the game view: the frames that switch the rejoin flag,      *)
(* reconnects, and the unmount. Socket events go on after the unmount.     *)
NextView ==
    \/ Unmount
    \/ \E h \in Handles : SocketOpen(h)
    \/ /\ Len(frames) < MaxRejoinFrames
       /\ \E h \in Handles, text \in RejoinFrames : SocketMessage(h, text)
    \/ /\ Len(readyState) < MaxViewHandles
       /\ \E h \in Handles : SocketClose(h)

SpecView == InitView /\ [][NextView]_vars

---------------------------------------------------------------------------
(* Properties of the outbound path.                                        *)
Msgs(log) == [i \in 1..Len(log) |-> log[i].msg]

(* The send calls made while the current handle was not OPEN, after k      *)
(* open events; the messages the onopen handler of open event k put on     *)
(* the network.                                                            *)
BufferedAfter(k) ==
    Msgs(SelectSeq(calls, LAMBDA e : e.st # OPEN /\ e.epoch = k))
FlushedBy(k) ==
    Msgs(SelectSeq(sent, LAMBDA e : e.via = "onopen" /\ e.st = OPEN
                                    /\ e.epoch = k))

(* C1: the messages passed to send while the current handle is not OPEN    *)
(* are transmitted at the next open event in the order of the send calls,  *)
(* none reordered, none lost.                                              *)
C1_FifoFlush ==
    \A k \in 1..Cardinality(opened) : FlushedBy(k) = BufferedAfter(k - 1)

C1_Witness ==
    \E k \in 1..Cardinality(opened) :
        /\ Len(FlushedBy(k)) >= 2
        /\ FlushedBy(k)[1] # FlushedBy(k)[2]
        /\ FlushedBy(k) = BufferedAfter(k - 1)

(* What one send call does, by the readyState of the current handle.       *)
SendStepOk ==
    Len(calls') = Len(calls) + 1 =>
        LET e == calls'[Len(calls')]
        IN  IF readyState'[ws'] = OPEN
            THEN /\ message_queue' = message_queue
                 /\ Len(sent') = Len(sent) + 1
                 /\ SubSeq(sent', 1, Len(sent)) = sent
                 /\ sent'[Len(sent')].h = ws'
                 /\ sent'[Len(sent')].msg = e.msg
                 /\ sent'[Len(sent')].st = OPEN
            ELSE /\ sent' = sent
                 /\ message_queue' = Append(message_queue, e.msg)

(* C2: a send call on an OPEN handle transmits the serialized intent on    *)
(* the current handle and leaves the queue alone; in any other state it    *)
(* transmits nothing and appends the text to the tail of the queue.        *)
C2_SendOrQueue == [][SendStepOk]_vars

C2_Witness ==
    /\ \E i \in 1..Len(calls) : calls[i].st = OPEN
    /\ \E i \in 1..Len(calls) : calls[i].st = CLOSING
    /\ \E i \in 1..Len(calls) : calls[i].st = CONNECTING

(* What the step that opens handle h does to the queue and the network.    *)
OpenStepOk ==
    \A h \in DOMAIN readyState :
        (readyState[h] = CONNECTING /\ readyState'[h] = OPEN) =>
            /\ message_queue' = <<>>
            /\ Len(sent') = Len(sent) + Len(message_queue)
            /\ SubSeq(sent', 1, Len(sent)) = sent
            /\ \A i \in 1..Len(message_queue) :
                   /\ sent'[Len(sent) + i].h = h
                   /\ sent'[Len(sent) + i].msg = message_queue[i]
                   /\ sent'[Len(sent) + i].st = OPEN

(* C3: when a handle goes from CONNECTING to OPEN, every message of the    *)
(* queue is transmitted on that handle, in queue order, and the queue is   *)
(* empty afterwards, whatever its length.                                  *)
C3_FlushOnOpen == [][OpenStepOk]_vars

(* The scenario of the specification: one JoinRoom buffered, then open.    *)
C3_Witness ==
    /\ readyState[1] = OPEN
    /\ message_queue = <<>>
    /\ Len(sent) = 1
    /\ sent[1].h = 1
    /\ sent[1].via = "onopen"
    /\ sent[1].msg = <<"JoinRoom", "name", "Ann", "room_id", "AB12">>

(* What the step that closes handle h does; what holds between handlers.   *)
CloseStepOk ==
    \A h \in DOMAIN readyState :
        (readyState[h] # CLOSED /\ readyState'[h] = CLOSED) =>
            /\ Len(readyState') = Len(readyState) + 1
            /\ ws' = Len(readyState')
            /\ readyState'[ws'] = CONNECTING

CurrentHandleLive ==
    /\ ws = Len(readyState)
    /\ readyState[ws] # CLOSED
    /\ \A h \in DOMAIN readyState : h # ws => readyState[h] = CLOSED

(* C4: when the current handle closes, a new handle is constructed in the  *)
(* same step and is CONNECTING; the current handle is never CLOSED         *)
(* between two handlers, and it is always the newest handle.               *)
C4_AlwaysReplaced == [][CloseStepOk]_vars /\ []CurrentHandleLive

C4_Witness ==
    /\ Len(readyState) >= 3
    /\ readyState[1] = CLOSED
    /\ readyState[2] = CLOSED
    /\ 1 \in opened
    /\ 2 \notin opened
    /\ readyState[ws] = CONNECTING

(* C5: the reconnect callback has run exactly once for every replacement   *)
(* handle (the i-th run with handle i+1 current), whatever the queue       *)
(* held, and never for the first handle.                                   *)
C5_OncePerReplacement ==
    /\ Len(cbLog) = Len(readyState) - 1
    /\ \A i \in 1..Len(cbLog) : cbLog[i].ws = i + 1

C5_Witness ==
    /\ Len(cbLog) = Len(readyState) - 1
    /\ \E i \in 1..Len(cbLog) : cbLog[i].qlen = 0
    /\ \E i \in 1..Len(cbLog) : cbLog[i].qlen >= 2

(* What the callback sees when it runs, and what a send inside it does.    *)
CallbackStepOk ==
    Len(cbLog') = Len(cbLog) + 1 =>
        LET e == cbLog'[Len(cbLog')]
        IN  /\ e.ws = ws'
            /\ e.ws \notin DOMAIN readyState
            /\ e.st = CONNECTING
            /\ e.installed
            /\ readyState'[ws'] = CONNECTING
            /\ sent' = sent
            /\ Len(calls') > Len(calls) =>
                   /\ calls'[Len(calls')].ctx = "callback"
                   /\ message_queue' =
                          Append(message_queue, calls'[Len(calls')].msg)

CallbackSendsArrive ==
    \A i \in 1..Len(calls) :
        (calls[i].ctx = "callback" /\ calls[i].ws \in opened) =>
            /\ \E j \in 1..Len(sent) :
                   /\ sent[j].h = calls[i].ws
                   /\ sent[j].msg = calls[i].msg
                   /\ sent[j].via = "onopen"
                   /\ sent[j].st = OPEN
            /\ calls[i].st = CONNECTING

(* C6: the reconnect callback runs with the new handle current,            *)
(* CONNECTING and with its handlers set; a send made inside the callback   *)
(* is queued, nothing is transmitted in that step, and the message goes    *)
(* out on the handle the callback ran for once that handle has opened.     *)
C6_CallbackAfterReplacement ==
    [][CallbackStepOk]_vars /\ []CallbackSendsArrive

C6_Witness ==
    \E i \in 1..Len(calls) :
        /\ calls[i].ctx = "callback"
        /\ calls[i].ws \in opened
        /\ \E j \in 1..Len(sent) :
               sent[j].h = calls[i].ws /\ sent[j].msg = calls[i].msg

---------------------------------------------------------------------------
(* Properties of the inbound path.                                         *)
WellFormed == {k \in 1..Len(frames) : Parseable(frames[k].text)}

DeliveredFor(k) == SelectSeq(delivered, LAMBDA d : d.frame = k)

(* The invocations frame k owes: one per observer registered before it     *)
(* arrived, in registration order, each with the decoded frame.            *)
ExpectedFor(k) ==
    [i \in 1..frames[k].nadded |->
        [frame |-> k, idx |-> i, handler |-> added[i].func,
         data |-> Parse(frames[k].text)]]

ObserverStepOk ==
    IF Len(added') = Len(added) + 1
    THEN onmessage_handler' =
             Append(onmessage_handler, added'[Len(added')].func)
    ELSE onmessage_handler' = onmessage_handler

ObserversSurvive ==
    \A k \in WellFormed :
        \A i \in 1..frames[k].nadded :
            added[i].ws < frames[k].h =>
                Cardinality({a \in 1..Len(delivered) :
                                /\ delivered[a].frame = k
                                /\ delivered[a].idx = i
                                /\ delivered[a].handler = added[i].func}) = 1

(* C9: the observer list only grows, by one entry per addMsgHandler call   *)
(* (duplicates included), nothing else changes it, and a frame arriving    *)
(* on a replacement handle reaches every observer registered while an      *)
(* earlier handle was current.                                             *)
C9_ObserversOnlyGrow == [][ObserverStepOk]_vars /\ []ObserversSurvive

C9_Witness ==
    \E k \in WellFormed :
        /\ frames[k].h = 2
        /\ Len(added) = 2
        /\ added[1] = added[2]
        /\ added[1].ws = 1
        /\ Len(DeliveredFor(k)) = 2
        /\ DeliveredFor(k)[1].handler = DeliveredFor(k)[2].handler

---------------------------------------------------------------------------
(* Properties of the reconnect callback registration.                      *)

LastRegistered(n) == IF n = 0 THEN NoopCb ELSE registered[n]

(* C10: every handle replacement invokes one callback, the one most        *)
(* recently passed to onclose (the empty default when there is none), and  *)
(* the retained callback is always the most recently registered one.       *)
C10_LastCallbackWins ==
    /\ onclosehandler = LastRegistered(Len(registered))
    /\ Len(cbLog) = Len(readyState) - 1
    /\ \A i \in 1..Len(cbLog) : cbLog[i].cb = LastRegistered(cbLog[i].nreg)

C10_Witness ==
    \E i \in 1..Len(cbLog) :
        /\ cbLog[i].nreg = 2
        /\ registered[1] # registered[2]
        /\ cbLog[i].cb = registered[2]

---------------------------------------------------------------------------
(* Properties of close().                                                  *)

(* The texts put on the network, in order.                                 *)
Transmitted == SelectSeq(sent, LAMBDA e : e.st = OPEN)

(* Texts leave in the order of the send calls, so the i-th call has been   *)
(* transmitted when the network has carried i texts.                       *)
CallTransmitted(i) == i <= Len(Transmitted)

(* C11: after close() has been called, no message passed to send           *)
(* afterwards is ever transmitted; it stays in the queue.                  *)
C11_NothingAfterClose ==
    \A i \in 1..Len(calls) : calls[i].afterClose => ~CallTransmitted(i)

---------------------------------------------------------------------------
(* Properties of the view's unmount.                                       *)

(* C12: once the view has unmounted the session is destroyed: no handle    *)
(* is CONNECTING or OPEN any more, nothing of the queue is transmitted     *)
(* and no observer is invoked.                                             *)
C12_DestroyedOnUnmount ==
    /\ ~mounted =>
           \A h \in DOMAIN readyState : readyState[h] \in {CLOSING, CLOSED}
    /\ \A j \in 1..Len(sent) : sent[j].mounted
    /\ \A k \in 1..Len(frames) : ~frames[k].mounted => DeliveredFor(k) = <<>>

---------------------------------------------------------------------------
(* Properties of the current handle.                                       *)

(* C13: there is exactly one current handle, the newest one; every         *)
(* WebSocket.send goes to the handle that is current at that moment, and   *)
(* never again to a handle that has been replaced.                         *)
C13_OnlyCurrentHandle ==
    /\ ws = Len(readyState)
    /\ \A j \in 1..Len(sent) :
           /\ sent[j].h = sent[j].cur
           /\ sent[j].cur = sent[j].newest
    /\ \A i, j \in 1..Len(sent) : i < j => sent[i].h <= sent[j].h

C13_Witness ==
    \E i, j \in 1..Len(sent) :
        /\ i < j
        /\ sent[i].h = 1
        /\ sent[j].h = 2
        /\ sent[j].cur = 2
        /\ sent[j].via = "send"
        /\ readyState[1] = CLOSED

---------------------------------------------------------------------------
(* Properties of the order on the network.                                 *)

DirectSends == SelectSeq(sent, LAMBDA e : e.via = "send" /\ e.st = OPEN)
CallsWhileOpen == SelectSeq(calls, LAMBDA e : e.st = OPEN)

(* C14: the messages passed to send while the handle is OPEN leave in      *)
(* the order of the calls; the flush of an open event sends the queue in   *)
(* the order it was filled, and all of it before any message of a send     *)
(* made once that flush has begun.                                         *)
C14_CallOrderOnTheWire ==
    /\ Msgs(DirectSends) = Msgs(CallsWhileOpen)
    /\ \A k \in 1..Cardinality(opened) : FlushedBy(k) = BufferedAfter(k - 1)
    /\ \A i, j \in 1..Len(sent) :
           (/\ sent[i].via = "onopen"
            /\ sent[j].via = "send"
            /\ sent[j].epoch >= sent[i].epoch) => i < j

(* A flush of two different messages, then a send on the OPEN handle.     *)
C14_Witness ==
    /\ Len(sent) = 3
    /\ sent[1].via = "onopen"
    /\ sent[2].via = "onopen"
    /\ sent[1].msg # sent[2].msg
    /\ sent[3].via = "send"
    /\ sent[3].msg # sent[2].msg
    /\ Msgs(sent) = Msgs(calls)

---------------------------------------------------------------------------
(* Properties of the queue across replacements.                            *)

(* C15: a message passed to send while no handle is OPEN is held in the    *)
(* queue through every replacement, and once a handle has opened after     *)
(* the call it has been transmitted, by the flush of the first open event  *)
(* after the call.                                                         *)
C15_BufferedUntilFirstOpen ==
    /\ message_queue = BufferedAfter(Cardinality(opened))
    /\ \A i \in 1..Len(calls) :
           (calls[i].st # OPEN /\ calls[i].epoch < Cardinality(opened)) =>
               \E j \in 1..Len(sent) :
                   /\ sent[j].msg = calls[i].msg
                   /\ sent[j].via = "onopen"
                   /\ sent[j].st = OPEN
                   /\ sent[j].epoch = calls[i].epoch + 1
                   /\ sent[j].h >= calls[i].ws

(* A message buffered on handle 1 goes out on handle 3, the first handle   *)
(* that opens.                                                             *)
C15_Witness ==
    /\ opened = {3}
    /\ \E i \in 1..Len(calls), j \in 1..Len(sent) :
           /\ calls[i].ws = 1
           /\ calls[i].ctx = "caller"
           /\ sent[j].h = 3
           /\ sent[j].msg = calls[i].msg
           /\ Len(sent) = Len(calls)

---------------------------------------------------------------------------
(* Properties of WebSocket.send.                                           *)

(* C16: WebSocket.send is only ever called on a handle that is OPEN, from  *)
(* send as from the flush, so it cannot raise (it raises on a CONNECTING   *)
(* handle) and send returns normally in every state of the handle.         *)
C16_SendOnlyWhenOpen ==
    \A j \in 1..Len(sent) : sent[j].st = OPEN

C16_Witness ==
    /\ \E i \in 1..Len(calls) : calls[i].st = CONNECTING
    /\ \E i \in 1..Len(calls) : calls[i].st = CLOSING
    /\ \E j \in 1..Len(sent) : sent[j].via = "send"
    /\ \E j \in 1..Len(sent) : sent[j].via = "onopen"
    /\ \A j \in 1..Len(sent) : sent[j].st = OPEN

---------------------------------------------------------------------------
(* Properties of the close event.                                          *)

(* What the close event of handle h does, whatever the handle was doing.   *)
SameReplacement(h) ==
    LET e == cbLog'[Len(cbLog')]
    IN  /\ h = ws
        /\ readyState' = Append([readyState EXCEPT ![h] = CLOSED], CONNECTING)
        /\ ws' = h + 1
        /\ installed' = installed \cup {h + 1}
        /\ Len(cbLog') = Len(cbLog) + 1
        /\ e.cb = onclosehandler
        /\ e.ws = h + 1
        /\ onclosehandler' = onclosehandler
        /\ onmessage_handler' = onmessage_handler
        /\ sent' = sent
        /\ SubSeq(message_queue', 1, Len(message_queue)) = message_queue

(* C17: every close event of the current handle (after a clean or an       *)
(* abnormal closure, a failed connection attempt, an error, or the         *)
(* client's own close()) leaves the handle CLOSED and runs the same        *)
(* replacement: new handle, handlers set, reconnect callback.              *)
C17_EveryCloseAlike ==
    [][\A h \in DOMAIN readyState :
           (readyState[h] # CLOSED /\ readyState'[h] = CLOSED) =>
               SameReplacement(h)]_vars

(* Handle 1 failed to connect, handle 2 opened and was lost, handle 3      *)
(* was closed by the close() of the unmount; each was replaced.            *)
C17_Witness ==
    /\ Len(cbLog) = 3
    /\ 1 \notin opened
    /\ 2 \in opened
    /\ cbLog[2].mounted
    /\ ~cbLog[3].mounted
    /\ \A h \in 1..3 : readyState[h] = CLOSED
    /\ ws = 4
    /\ readyState[4] = CONNECTING

---------------------------------------------------------------------------
(* Properties of the origin of outbound messages.                          *)

Range(q) == {q[i] : i \in 1..Len(q)}

---------------------------------------------------------------------------
(* Properties of the game view's rejoin.                                   *)

(* The step is an invocation of the reconnect callback; the step makes     *)
(* exactly one send call, a JoinRoom with the room code and the name of    *)
(* the initial join.                                                       *)
CallbackInvoked == Len(cbLog') = Len(cbLog) + 1

OneJoinRoomIssued ==
    /\ Len(calls') = Len(calls) + 1
    /\ SubSeq(calls', 1, Len(calls)) = calls
    /\ calls'[Len(calls')].ctx = "callback"
    /\ calls'[Len(calls')].msg = calls[1].msg
    /\ calls[1].msg = <<"JoinRoom", "name", Name, "room_id", RoomCode>>

(* C19, as stated: on every invocation of the reconnect callback the view  *)
(* issues exactly one JoinRoom with the room code and name of the initial  *)
(* join.                                                                   *)
C19_RejoinOnEveryCallback == [][CallbackInvoked => OneJoinRoomIssued]_vars

(* C19, amended: on an invocation of the reconnect callback the view       *)
(* issues exactly one such JoinRoom when its rejoin flag is set, and no    *)
(* message at all when the flag is clear; the callback leaves the flag     *)
(* as it is.                                                               *)
C19_RejoinWhenFlagSet ==
    [][CallbackInvoked =>
          /\ rejoin' = rejoin
          /\ IF rejoin THEN OneJoinRoomIssued ELSE calls' = calls]_vars

(* One invocation with the flag clear and one with the flag set.           *)
C19_Witness ==
    /\ Len(cbLog) = 2
    /\ Len(calls) = 2
    /\ calls[2].ctx = "callback"
    /\ calls[2].msg = calls[1].msg
    /\ mounted

(* An InvalidRoomId event has been handled; it is the latest frame.        *)
InvalidSeen ==
    \E k \in 1..Len(frames) : frames[k].text = InvalidRoomIdFrame

InvalidLatest ==
    Len(frames) > 0 /\ frames[Len(frames)].text = InvalidRoomIdFrame

(* C20, as stated: once an InvalidRoomId event has been received the       *)
(* callback issues no JoinRoom on any later replacement, and the view has  *)
(* navigated to the home route.                                            *)
C20_AbandonedForGood ==
    /\ [][(InvalidSeen /\ CallbackInvoked) => calls' = calls]_vars
    /\ [](InvalidSeen => navigated)

(* C20, amended: the same, for the replacements made while no RoomState    *)
(* event has been handled since the InvalidRoomId event.                   *)
C20_AbandonedUntilRoomState ==
    /\ [][(InvalidLatest /\ CallbackInvoked) => calls' = calls]_vars
    /\ [](InvalidLatest => ~rejoin)
    /\ [](InvalidSeen => navigated)

(* A view that had rejoined once receives InvalidRoomId on handle 2; the   *)
(* next replacement sends nothing.                                         *)
C20_Witness ==
    /\ Len(frames) = 2
    /\ frames[1].text = RoomStateFrame
    /\ frames[2].text = InvalidRoomIdFrame
    /\ frames[2].h = 2
    /\ Len(readyState) = 3
    /\ Len(cbLog) = 2
    /\ Len(calls) = 2
    /\ calls[2].ctx = "callback"
    /\ navigated
    /\ ~rejoin

---------------------------------------------------------------------------
(* Properties of the serialized text.                                      *)

(* The texts transmitted so far followed by the texts still queued.        *)
Outbound == Msgs(sent) \o message_queue

(* C21: the text kept for a send call is the serialization made at the     *)
(* call: assigning to the intent object afterwards changes neither the     *)
(* queue nor what has been transmitted, and what is transmitted later is   *)
(* the text of the call.                                                   *)
C21_TextFixedAtSend ==
    /\ [][held' # held => (message_queue' = message_queue /\ sent' = sent)]_vars
    /\ [](/\ Len(Outbound) = Len(calls)
          /\ \A i \in 1..Len(calls) : Outbound[i] = calls[i].msg)

(* The object was sent with card c1 while CONNECTING, then mutated to c2   *)
(* and sent again; the flush transmitted the c1 text first.                *)
C21_Witness ==
    /\ Len(sent) = 2
    /\ sent[1].via = "onopen"
    /\ sent[1].msg = <<"Vote", "card", "c1">>
    /\ sent[2].via = "onopen"
    /\ sent[2].msg = <<"Vote", "card", "c2">>
    /\ held.card = "c2"

---------------------------------------------------------------------------
(* Properties of a frame that does not parse.                              *)

MalformedStepOk ==
    (/\ Len(frames') = Len(frames) + 1
     /\ ~Parseable(frames'[Len(frames')].text)) =>
        UNCHANGED <<ws, readyState, installed, message_queue,
                    onmessage_handler, onclosehandler, delivered, sent,
                    cbLog, rejoin, view, toasts>>

AfterMalformed ==
    {k \in WellFormed : \E j \in 1..(k - 1) : j \notin WellFormed}

(* C22: a frame that does not parse reaches no observer and changes        *)
(* neither the handles, the queue, the observer list nor the reconnect     *)
(* callback; every well-formed frame after it is dispatched to all         *)
(* observers as usual.                                                     *)
C22_MalformedDropped ==
    /\ [][MalformedStepOk]_vars
    /\ [](\A k \in 1..Len(frames) :
              k \notin WellFormed => DeliveredFor(k) = <<>>)
    /\ [](\A k \in AfterMalformed : DeliveredFor(k) = ExpectedFor(k))

(* A malformed frame, then a well-formed one on the same handle, with an   *)
(* observer registered before both.                                        *)
C22_Witness ==
    /\ Len(frames) = 2
    /\ 1 \notin WellFormed
    /\ frames[1].nadded >= 1
    /\ DeliveredFor(1) = <<>>
    /\ 2 \in WellFormed
    /\ frames[2].h = frames[1].h
    /\ Len(DeliveredFor(2)) = frames[2].nadded
    /\ readyState[frames[1].h] = OPEN

---------------------------------------------------------------------------
(* Properties of the typed helpers.                                        *)

(* The outbound variants of the wire protocol, and the text each helper    *)
(* invocation owes: the variant's key, then its fields.                    *)
OutboundTags ==
    {"CreateRoom", "JoinRoom", "Ready", "ActivePlayerChooseCard",
     "PlayerChooseCard", "Vote"}

WireText(inv) ==
    CASE inv.helper = "createRoom" -> <<"CreateRoom", "name", inv.args[1]>>
      [] inv.helper = "joinRoom" ->
             <<"JoinRoom", "name", inv.args[2], "room_id", inv.args[1]>>
      [] inv.helper = "ready" -> <<"Ready">>
      [] inv.helper = "activePlayerChoose" ->
             <<"ActivePlayerChooseCard", "card", inv.args[1],
               "description", inv.args[2]>>
      [] inv.helper = "playersChoose" ->
             <<"PlayerChooseCard", "card", inv.args[1]>>
      [] inv.helper = "vote" -> <<"Vote", "card", inv.args[1]>>
      [] inv.helper = "ping" -> <<"Ping">>
      [] inv.helper = "startRound" -> <<"StartRound">>

LibHelpers ==
    {"createRoom", "joinRoom", "ready", "activePlayerChoose",
     "playersChoose", "vote"}

OneSendPerHelper ==
    /\ Len(calls) = Len(invoked)
    /\ Len(Outbound) = Len(invoked)

(* C23, as stated: every typed helper calls send exactly once, with one    *)
(* of the six variants of the wire protocol and its fields; no helper      *)
(* sends another tag.                                                      *)
C23_HelpersInClosedSet ==
    /\ OneSendPerHelper
    /\ \A i \in 1..Len(calls) :
           /\ calls[i].msg[1] \in OutboundTags
           /\ calls[i].msg = WireText(invoked[i])

(* C23, amended: this holds for the six helpers of the caller-driven       *)
(* client; ping and startRound of the internal-requeue variant call send   *)
(* once as well, with the tags Ping and StartRound.                        *)
C23_LibHelpersInClosedSet ==
    /\ OneSendPerHelper
    /\ \A i \in 1..Len(calls) :
           /\ calls[i].msg = WireText(invoked[i])
           /\ invoked[i].helper \in LibHelpers =>
                  calls[i].msg[1] \in OutboundTags
           /\ invoked[i].helper \notin LibHelpers =>
                  calls[i].msg \in {<<"Ping">>, <<"StartRound">>}

C23_Witness ==
    /\ Len(invoked) = 2
    /\ invoked[1].helper = "joinRoom"
    /\ invoked[1].args = <<RoomCode, Name>>
    /\ calls[1].msg = <<"JoinRoom", "name", "Ann", "room_id", "AB12">>
    /\ invoked[2].helper = "activePlayerChoose"
    /\ Outbound[2] =
           <<"ActivePlayerChooseCard", "card", "c2", "description", "d1">>

---------------------------------------------------------------------------
(* Properties of repeated rejoins.                                         *)

JoinRoomText == <<"JoinRoom", "name", Name, "room_id", RoomCode>>

(* The joinRoom calls buffered after k open events; the callback's among   *)
(* them.                                                                   *)
JoinsAfter(k) ==
    {i \in 1..Len(calls) : /\ calls[i].msg = JoinRoomText
                           /\ calls[i].st # OPEN
                           /\ calls[i].epoch = k}
RejoinsAfter(k) == {i \in JoinsAfter(k) : calls[i].ctx = "callback"}

(* C24: with rejoin set, every replacement appends one JoinRoom to the     *)
(* queue whatever the queue already holds; the JoinRoom messages of k      *)
(* replacements in a row are all in the queue, and the next open event     *)
(* transmits all k.                                                        *)
C24_NoCoalescing ==
    /\ [][(CallbackInvoked /\ rejoin) =>
              message_queue' = Append(message_queue, JoinRoomText)]_vars
    /\ [](Cardinality(JoinsAfter(Cardinality(opened))) =
              Len(SelectSeq(message_queue, LAMBDA t : t = JoinRoomText)))
    /\ [](\A k \in 1..Cardinality(opened) :
              Cardinality(JoinsAfter(k - 1)) =
                  Len(SelectSeq(FlushedBy(k), LAMBDA t : t = JoinRoomText)))

(* Handles 1, 2 and 3 closed with rejoin set, 2 and 3 without opening;     *)
(* handle 4 opened and transmitted three JoinRoom messages.                *)
C24_Witness ==
    /\ opened = {1, 4}
    /\ Cardinality(RejoinsAfter(1)) = 3
    /\ FlushedBy(2) = <<JoinRoomText, JoinRoomText, JoinRoomText>>
    /\ \A j \in 2..4 : sent[j].h = 4

---------------------------------------------------------------------------
(* Properties of the internal-requeue variant.                             *)

(* What the close event of the variant does to the queue.                  *)
RequeueStepOk ==
    \A h \in DOMAIN readyState :
        (readyState[h] # CLOSED /\ readyState'[h] = CLOSED) =>
            /\ readyState'[ws'] = CONNECTING
            /\ sent' = sent
            /\ calls' = calls
            /\ message_queue' =
                   IF joined_room # ""
                   THEN <<<<"JoinRoom", "name", nameStore,
                            "room_id", joined_room>>>> \o message_queue
                   ELSE message_queue

(* The handles constructed after a RoomStatus frame had been received.     *)
RoomRecordedBefore(h) ==
    \E k \in 1..Len(frames) :
        frames[k].text[1] = "RoomStatus" /\ frames[k].h < h

SentOn(h) == SelectSeq(sent, LAMBDA e : e.h = h)

(* C25: in the internal-requeue variant a close event puts one JoinRoom    *)
(* with the recorded room id and the current name at the head of the       *)
(* queue when a room id is recorded, and nothing otherwise; the first      *)
(* frame transmitted on a replacement handle made after the room id was    *)
(* recorded is a JoinRoom.                                                 *)
C25_RequeueAtHead ==
    /\ [][RequeueStepOk]_vars
    /\ [](\A h \in opened :
              RoomRecordedBefore(h) =>
                  /\ Len(SentOn(h)) > 0
                  /\ SentOn(h)[1].msg[1] = "JoinRoom"
                  /\ SentOn(h)[1].via = "onopen")
    /\ [](joined_room = "" =>
              \A i \in 1..Len(Outbound) : Outbound[i][1] # "JoinRoom")

(* Handle 1 received RoomStatus and was lost, an intent was buffered, the  *)
(* name changed and handle 2 failed: handle 3 transmits the JoinRoom with  *)
(* the new name first and the buffered intent last.                        *)
C25_Witness ==
    /\ opened = {1, 3}
    /\ Len(SentOn(3)) = 3
    /\ SentOn(3)[1].msg = <<"JoinRoom", "name", "Bob", "room_id", "AB12">>
    /\ SentOn(3)[2].msg = <<"JoinRoom", "name", "Ann", "room_id", "AB12">>
    /\ SentOn(3)[3].msg[1] # "JoinRoom"
    /\ calls[Len(calls)].ws = 2

---------------------------------------------------------------------------
(* Properties of the game view's frames.                                   *)

(* The step handles an ErrorMsg frame.                                     *)
ErrorMsgStep ==
    /\ Len(frames') = Len(frames) + 1
    /\ frames'[Len(frames')].text[1] = "ErrorMsg"

(* The game state of the view and the state of the session are as before. *)
GameStateKept ==
    /\ view' = view
    /\ rejoin' = rejoin
    /\ navigated' = navigated
    /\ UNCHANGED <<ws, readyState, installed, message_queue,
                   onmessage_handler, onclosehandler, sent, calls>>

(* C26: an ErrorMsg frame changes no game state of the view and no state  *)
(* of the session; its only effect is one toast carrying the message.     *)
C26_ErrorMsgToastOnly ==
    [][ErrorMsgStep =>
          /\ GameStateKept
          /\ toasts' = Append(toasts,
                              <<"sob", frames'[Len(frames')].text[2]>>)]_vars

(* What the code does: the toast is shown for a non-empty message only.   *)
ErrorMsgShownUnlessEmpty ==
    [][ErrorMsgStep =>
          /\ GameStateKept
          /\ toasts' =
                 IF frames'[Len(frames')].text[2] # ""
                 THEN Append(toasts, <<"sob", frames'[Len(frames')].text[2]>>)
                 ELSE toasts]_vars

---------------------------------------------------------------------------
(* Properties that hold between any two handlers.                          *)

(* C27: the texts given to WebSocket.send so far, followed by the queue,  *)
(* are the texts of all send calls so far, in the order of the calls.     *)
C27_LogThenQueueIsCalls == Msgs(sent) \o message_queue = Msgs(calls)

(* A flushed text and a directly sent text on the network, a third in the *)
(* queue of the replacement handle.                                        *)
C27_Witness ==
    /\ Len(sent) = 2
    /\ sent[1].via = "onopen"
    /\ sent[2].via = "send"
    /\ Len(message_queue) = 1
    /\ message_queue[1] # sent[2].msg
    /\ ws = 2

(* C28: whenever the queue is not empty the current handle is not OPEN.   *)
C28_QueueOnlyWhileNotOpen ==
    message_queue # <<>> => readyState[ws] # OPEN

(* Two texts queued for a replacement handle that has just been made, and *)
(* the moment after: the handle is OPEN and the queue is empty.            *)
C28_Witness ==
    /\ Len(message_queue) = 0
    /\ readyState[ws] = OPEN
    /\ ws = 2
    /\ Len(SentOn(2)) = 2
    /\ \A j \in 1..Len(sent) : sent[j].h = 2 => sent[j].via = "onopen"

---------------------------------------------------------------------------
(* Properties of the rejoin's place on a replacement handle.               *)

(* The reconnect callback issued a JoinRoom when handle h was made.        *)
RejoinIssuedFor(h) ==
    \E i \in 1..Len(calls) :
        /\ calls[i].ctx = "callback"
        /\ calls[i].ws = h
        /\ calls[i].msg[1] = "JoinRoom"

---------------------------------------------------------------------------
(* Properties of the view's rejoin flag.                                   *)

(* The step handles a frame of the given kind; the step is the unmount.    *)
Handled(tag) ==
    /\ Len(frames') = Len(frames) + 1
    /\ frames'[Len(frames')].text[1] = tag

UnmountStep == mounted /\ ~mounted'

ConnectedToasts(log) ==
    Len(SelectSeq(log, LAMBDA t : t = <<"wave", "Connected to room!">>))

RoomStateSeen ==
    \E k \in 1..Len(frames) : frames[k].text[1] = "RoomState"

RejoinFlagStepOk ==
    /\ (~rejoin /\ rejoin') <=> (~rejoin /\ Handled("RoomState"))
    /\ (rejoin /\ ~rejoin') <=>
           (rejoin /\ (Handled("InvalidRoomId") \/ UnmountStep))
    /\ ConnectedToasts(toasts') =
           ConnectedToasts(toasts) + (IF ~rejoin /\ rejoin' THEN 1 ELSE 0)
    /\ CallbackInvoked =>
           /\ (calls' # calls) <=> rejoin
           /\ calls' # calls =>
                  /\ calls' = Append(calls, calls'[Len(calls')])
                  /\ calls'[Len(calls')].msg = JoinRoomText

(* C30: the rejoin flag is false at mount, becomes true exactly when a    *)
(* RoomState event is handled and false exactly on an InvalidRoomId event *)
(* or on unmount; the "Connected to room" toast is raised once for each   *)
(* change from false to true and for no other RoomState; the reconnect    *)
(* callback issues a JoinRoom exactly when the flag is true, so a handle  *)
(* closing before any RoomState has arrived produces no rejoin.           *)
C30_RejoinFlag ==
    /\ [][RejoinFlagStepOk]_vars
    /\ []((frames = <<>> /\ mounted) => ~rejoin)
    /\ [](~RoomStateSeen =>
              /\ ~rejoin
              /\ \A i \in 1..Len(calls) : calls[i].ctx # "callback")

(* Handle 1 transmitted the initial JoinRoom and closed before any         *)
(* RoomState: no rejoin. Handle 2 then received RoomState twice and       *)
(* InvalidRoomId: one "Connected to room" toast, and the flag is false.    *)
C30_Witness ==
    /\ opened = {1, 2}
    /\ Len(cbLog) = 1
    /\ Len(calls) = 1
    /\ Len(SentOn(1)) = 1
    /\ Len(frames) = 3
    /\ \A k \in 1..3 : frames[k].h = 2
    /\ frames[1].text = RoomStateFrame
    /\ frames[2].text = RoomStateFrame
    /\ frames[3].text = InvalidRoomIdFrame
    /\ toasts = <<<<"wave", "Connected to room!">>,
                  <<"broken heart", "Invalid Room Code!">>>>
    /\ ~rejoin

---------------------------------------------------------------------------
(* Properties of the rejoin after the unmount.                             *)

(* C31: the unmount clears the rejoin flag before close(), so the          *)
(* reconnect callback of the replacement that close() brings about        *)
(* queues no JoinRoom, and the view issues no JoinRoom at any later       *)
(* replacement.                                                            *)
C31_NoRejoinAfterUnmount ==
    /\ [][UnmountStep => (~rejoin' /\ calls' = calls)]_vars
    /\ [][(~mounted /\ CallbackInvoked) => calls' = calls]_vars

(* What the code guarantees: the first replacement after the unmount       *)
(* queues nothing as long as no RoomState frame is handled in between.     *)
NoRejoinUntilRoomState ==
    /\ [][UnmountStep => (~rejoin' /\ calls' = calls)]_vars
    /\ [][(~mounted /\ ~rejoin /\ CallbackInvoked) => calls' = calls]_vars
    /\ [][(~mounted /\ ~rejoin /\ rejoin') => Handled("RoomState")]_vars

---------------------------------------------------------------------------
(* Properties of the mount.                                                *)

MountStep == readyState = <<>> /\ readyState' # <<>>

(* C32: when the name is empty at the mount, the view navigates to the    *)
(* home route and creates no session: no handle is opened and no JoinRoom *)
(* with an empty name is sent or queued.                                   *)
C32_NoSessionWithoutName ==
    /\ [][(MountStep /\ nameStore = "") => navigated']_vars
    /\ [](nameStore = "" => readyState = <<>>)
    /\ [](\A i \in 1..Len(Outbound) :
              Outbound[i][1] = "JoinRoom" => Outbound[i][3] # "")

---------------------------------------------------------------------------
(* Properties of an observer that throws.                                  *)

(* Invocation d ended with an exception.                                   *)
Threw(d) ==
    \/ d.handler = "raisingHandler"
    \/ d.handler = "viewHandler" /\ d.data = [tag |-> "Results", body |-> <<>>]

(* The observers frame k reaches: all of them, or those up to the first    *)
(* one that throws.                                                        *)
ReachedBy(k) ==
    LET all == ExpectedFor(k)
        bad == {i \in 1..Len(all) : Threw(all[i])}
    IN  IF bad = {} THEN all
        ELSE SubSeq(all, 1, CHOOSE i \in bad : \A j \in bad : i <= j)

FrameStep == Len(frames') = Len(frames) + 1

(* C33: when an observer throws during the dispatch of a frame, the        *)
(* observers registered after it do not receive the frame; the handle,    *)
(* the queue and the observer list are as before, and the next frame is   *)
(* dispatched again from the first observer.                               *)
C33_RaiseEndsDispatch ==
    /\ [](\A k \in WellFormed : DeliveredFor(k) = ReachedBy(k))
    /\ [][FrameStep =>
              UNCHANGED <<ws, readyState, installed, message_queue,
                          onmessage_handler, onclosehandler>>]_vars

(* Three observers, the second throws: two frames reach the first two     *)
(* observers each, and the third observer neither.                         *)
C33_Witness ==
    /\ Len(frames) = 2
    /\ frames[1].nadded = 3
    /\ added[2].func = "raisingHandler"
    /\ added[1].func # "raisingHandler"
    /\ Len(onmessage_handler) = 3
    /\ Len(delivered) = 4
    /\ [a \in 1..4 |-> delivered[a].idx] = <<1, 2, 1, 2>>
    /\ delivered[3].frame = 2

---------------------------------------------------------------------------
(* Properties of the results view.                                         *)

(* player_to_vote of the latest Results frame, as the frame has it.        *)
LatestVotes ==
    LET ks == {k \in 1..Len(frames) : frames[k].text[1] = "Results"}
        k == CHOOSE a \in ks : \A b \in ks : b <= a
    IN  {<<frames[k].text[i], frames[k].text[i + 1]>> :
            i \in {j \in 7..(Len(frames[k].text) - 1) : j % 2 = 1}}

TimesListed(p, x) ==
    Len(SelectSeq(view.cardToVoters[x], LAMBDA v : v = p))

(* C34: while the results are shown, the card-to-voters map is the exact  *)
(* inverse of the latest player_to_vote: p is listed under x exactly when *)
(* p voted for x, once, and no voter of an earlier Results event remains. *)
C34_VotersAreInverse ==
    view.stage = "Results" =>
        \A p \in Names, x \in Cards :
            TimesListed(p, x) = IF <<p, x>> \in LatestVotes THEN 1 ELSE 0

(* The derivation of the page itself (card_to_voters = {} before the      *)
(* entries are pushed) gives the inverse of the latest votes.             *)
PageVotersAreInverse ==
    view.stage = "Results" =>
        \A p \in Names, x \in Cards :
            Len(SelectSeq(TallyVotes(NoVoters, view.playerToVote, 1)[x],
                          LAMBDA v : v = p)) =
                IF <<p, x>> \in LatestVotes THEN 1 ELSE 0

===========================================================================
